---- MODULE Spec2Model ----
(***************************************************************************)
(* Credential and token lifecycle of bitbucket-go-mcp.                     *)
(*                                                                         *)
(* The specifications of this module:                                     *)
(*   Spec       the authenticated request path of the Bitbucket client     *)
(*              (Client.do, Client.ensureValidToken, RefreshAccessToken,   *)
(*              SaveToken), run by NumGoroutines concurrent goroutines;    *)
(*   SpecOAuth  the Authorization Code Grant flow (OAuthLogin) with its    *)
(*              callback listener, the two result channels and the         *)
(*              5-minute timeout; FairOAuth adds its scheduling;           *)
(*   SpecCli, SpecExpiry  the commands auth, oauth, status, logout and     *)
(*              the server start, over the credential files;              *)
(*   SpecApi    the request methods Get, GetRaw, Post, Put and Delete;     *)
(*   SpecAuthorize  the start of OAuthLogin up to openBrowser;             *)
(*   SpecRegister   registerTools of the MCP server;                       *)
(*   SpecCreateRepo the create_repository tool.                            *)
(***************************************************************************)
EXTENDS Integers, Sequences, FiniteSets, TLC

\* ------------------------------------------------------------------ bounds
NumGoroutines == 2
MaxCallbacks == 3

Goroutines == 1..NumGoroutines

\* ------------------------------------------------------- program constants
\* 5 * time.Minute, in seconds
Buffer == 300
\* time.Time{}, the zero time used to force expiry
ZeroTime == 0
StatusOK == 200
StatusUnauthorized == 401
\* one-slot buffers of codeCh and errCh
ChanCap == 1

\* the empty string of a token field
NoToken == 0
\* a string read while another goroutine was writing it (data race)
TornToken == -1
\* access and refresh token of the credential the server starts with
InitialToken == 1

\* time.Now() during the calls
StartTimes == {10000}
\* expires_in values of a credential / of a refresh response
ExpiresInValues == {0, 3600}
\* outcomes of an API request: a response status (do treats every status
\* but 401 alike), or 0 for a transport error
ApiOutcomes == {StatusOK, StatusUnauthorized, 0}
\* RefreshAccessToken failing before it touches the token: the transport
\* error, the non-200 status and the undecodable body all return at once and
\* differ only in the message, so one of them stands for the three
RefreshFailures == {"status"}

VARIABLES
  \* ---- the provider's token endpoint
  endpoint,   \* whether it rotates refresh tokens, and the expires_in it grants
  \* ---- Client (one per server process)
  now,        \* wall clock, seconds
  tokenData,  \* c.tokenData: the TokenData the client holds
  token,      \* c.token: bearer token put on requests
  mu,         \* c.mu: 0 when free, else the goroutine holding it
  tokenFile,  \* token.json (TokenPath): <<>> when absent, else <<TokenData>>
  credFile,   \* credentials.json (CredentialsPath): <<>> or <<record>>
  issued,     \* last token issued by the token endpoint
  \* ---- one Client.do call per goroutine
  pc,         \* position of each goroutine
  phase,      \* 1: first attempt, 2: after a 401
  rfResult,   \* decoded refresh response held by RefreshAccessToken
  reqs,       \* API requests the call has sent: bearer token and outcome
  nref,       \* refresh requests the call has sent to the token endpoint
  nforced,    \* those of them sent after a 401 forced expiry
  startCred,  \* credential and bearer token the goroutines started from
  result,     \* what the call returned
  \* ---- OAuthLogin (one run of the flow)
  flowPc,     \* position of the goroutine running OAuthLogin
  branch,     \* the case its select took: "none", "code", "err", "timeout"
  code,       \* the code received from codeCh
  listener,   \* the bound port: "open" or "closed"
  servePc,    \* the goroutine of line 205: "serving", "send_err", "done"
  codeCh,     \* codeCh, capacity 1
  errCh,      \* errCh, capacity 1
  handlers,   \* one entry per GET /callback the listener accepted
  exchanged,  \* codes sent to the token endpoint
  flowResult, \* what OAuthLogin returned
  \* ---- the command line (one process per command, one after the other)
  env,        \* BITBUCKET_ACCESS_TOKEN, BITBUCKET_USERNAME, BITBUCKET_APP_PASSWORD
  umask,      \* permission bits the process's umask clears on creation
  modes,      \* permission bits of ~/.config/bitbucket-mcp, credentials.json, token.json
  cmd,        \* the last command run: its name, its error, what it produced
  saved,      \* the Credentials value of the last successful SaveCredentials
  \* ---- one call of Get, GetRaw, Post, Put or Delete
  apiCall,    \* the method called and the response do returned to it
  apiRet,     \* what the method returned
  \* ---- the start of OAuthLogin, up to openBrowser
  authz,      \* client id, state, bound port, authorize and callback URL
  \* ---- the start of the MCP server
  registry,   \* granted scopes, BITBUCKET_DISABLED_TOOLS, tools registered
  \* ---- one call of the create_repository tool
  repoCall    \* the arguments of the call and the body it posts

clientVars == <<endpoint, now, tokenData, token, mu, tokenFile, credFile, issued,
                pc, phase, rfResult, reqs, nref, nforced, startCred,
                result>>

flowVars == <<flowPc, branch, code, listener, servePc, codeCh, errCh,
              handlers, exchanged, flowResult>>

cliVars == <<env, umask, modes, cmd, saved>>

apiVars == <<apiCall, apiRet>>

toolVars == <<authz, registry, repoCall>>

vars == <<clientVars, flowVars, cliVars, apiVars, toolVars>>

NoResult == [kind |-> "none", status |-> 0, err |-> ""]
RespResult(s) == [kind |-> "resp", status |-> s, err |-> ""]
ErrResult(e) == [kind |-> "err", status |-> 0, err |-> e]
NoRefreshResult ==
  [AccessToken |-> NoToken, RefreshToken |-> NoToken, ExpiresIn |-> 0,
   Scopes |-> ""]

\* the scopes of the credential the login stored, and the scopes the token
\* endpoint names in its responses
StoredScopes == "account repository"
GrantedScopes == "repository pullrequest"

\* no command has run
NoCmd == [name |-> "none", err |-> "", out |-> <<>>]
\* no config directory and neither file exists (<<>>: absent, <<m>>: mode m)
NoModes == [dir |-> <<>>, cred |-> <<>>, tok |-> <<>>]
\* none of the three environment variables is set
NoEnv == [token |-> NoToken, username |-> "", password |-> ""]

\* no command line process is running
CliIdle ==
  /\ env = NoEnv
  /\ umask = {}
  /\ modes = NoModes
  /\ cmd = NoCmd
  /\ saved = <<>>

\* no request method is being called, OAuthLogin has not started, no MCP
\* server is being set up and no tool is being called
ApiIdle ==
  /\ apiCall = <<>>
  /\ apiRet = <<>>
  /\ authz = <<>>
  /\ registry = <<>>
  /\ repoCall = <<>>

\* TokenData.IsExpired: time.Now().After(ObtainedAt + ExpiresIn - 5min)
IsExpired(t, n) == n > (t.ObtainedAt + t.ExpiresIn) - Buffer

\* the credential the server process starts with: an OAuth credential read
\* from credentials.json, with or without a refresh token, fresh or expired
InitialCredentials(n) ==
  {[AccessToken |-> InitialToken, RefreshToken |-> rt,
    ExpiresIn |-> 3600, Scopes |-> StoredScopes, ObtainedAt |-> n - age] :
     rt \in {NoToken, InitialToken}, age \in {0, 7200}}

\* runServer loads the stored credential and NewClientFromToken wraps it;
\* every goroutine has entered Client.do and is at c.mu.Lock() (line 61)
InitClient ==
  /\ now \in StartTimes
  /\ endpoint \in [rotate : BOOLEAN, expiresIn : ExpiresInValues]
  /\ tokenData \in InitialCredentials(now)
  /\ token = tokenData.AccessToken
  /\ mu = 0
  /\ tokenFile = <<tokenData>>
  /\ credFile = <<tokenData>>
  /\ issued = InitialToken
  /\ pc = [g \in Goroutines |-> "ev_lock"]
  /\ phase = [g \in Goroutines |-> 1]
  /\ rfResult = [g \in Goroutines |-> NoRefreshResult]
  /\ reqs = [g \in Goroutines |-> <<>>]
  /\ nref = [g \in Goroutines |-> 0]
  /\ nforced = [g \in Goroutines |-> 0]
  /\ startCred = [td |-> tokenData, tok |-> token]
  /\ result = [g \in Goroutines |-> NoResult]
  /\ CliIdle
  /\ ApiIdle

\* the login flow does not run in the server process, and no command
\* runs beside it
flowFrame == UNCHANGED <<flowVars, cliVars, apiVars, toolVars>>

\* where a call continues when ensureValidToken returns nil
AfterEnsure(g) == IF phase[g] = 1 THEN "send" ELSE "resend"

\* a Lock that does not wait for the holder
LockNoWait(g) == TRUE

\* c.mu.Lock(): blocks while another goroutine holds the mutex
Lock(g) == mu = 0

\* ensureValidToken: Lock, then the IsExpired check (lines 61-66); a token
\* that is not expired returns nil and unlocks, an expired one goes on to
\* RefreshAccessToken with the lock held
EnsureCheck(g) ==
  /\ pc[g] = "ev_lock"
  /\ Lock(g)
  /\ IF IsExpired(tokenData, now)
       THEN /\ pc' = [pc EXCEPT ![g] = "rf_request"]
            /\ mu' = g
       ELSE /\ pc' = [pc EXCEPT ![g] = AfterEnsure(g)]
            /\ mu' = 0
  /\ flowFrame
  /\ UNCHANGED <<endpoint, now, tokenData, token, tokenFile, credFile, issued,
                 phase, rfResult, reqs, nref, nforced, startCred, result>>

\* RefreshAccessToken: the POST to the token endpoint fails, answers
\* non-200, or answers a body that does not parse (lines 98-134); the
\* error is wrapped by ensureValidToken (69) and, after a 401, by do (112)
RefreshFail(g) ==
  /\ pc[g] = "rf_request"
  /\ \E f \in RefreshFailures :
       result' = [result EXCEPT ![g] = ErrResult(f)]
  /\ nref' = [nref EXCEPT ![g] = @ + 1]
  /\ nforced' = [nforced EXCEPT ![g] = IF phase[g] = 2 THEN @ + 1 ELSE @]
  /\ startCred' = startCred
  /\ mu' = 0
  /\ pc' = [pc EXCEPT ![g] = "done"]
  /\ flowFrame
  /\ UNCHANGED <<endpoint, now, tokenData, token, tokenFile, credFile, issued,
                 phase, rfResult, reqs>>

\* RefreshAccessToken: the token endpoint answers 200 with a new access
\* token, a new refresh token or none, and its lifetime (lines 98-134), and
\* token.AccessToken = result.AccessToken (line 136); the endpoint grants
\* nothing for the empty refresh_token of line 100
RefreshOK(g) ==
  /\ pc[g] = "rf_request"
  /\ tokenData.RefreshToken # NoToken
  /\ issued' = issued + 1
  /\ rfResult' = [rfResult EXCEPT ![g] =
                      [AccessToken |-> issued + 1,
                       RefreshToken |-> IF endpoint.rotate THEN issued + 1 ELSE NoToken,
                       ExpiresIn |-> endpoint.expiresIn,
                       Scopes |-> GrantedScopes]]
  /\ tokenData' = [tokenData EXCEPT !.AccessToken = issued + 1]
  /\ nref' = [nref EXCEPT ![g] = @ + 1]
  /\ nforced' = [nforced EXCEPT ![g] = IF phase[g] = 2 THEN @ + 1 ELSE @]
  /\ startCred' = startCred
  /\ pc' = [pc EXCEPT ![g] = "rf_set_rest"]
  /\ flowFrame
  /\ UNCHANGED <<endpoint, now, token, mu, tokenFile, credFile,
                 phase, reqs, result>>

\* SaveToken writes the token to TokenPath(), token.json (oauth.go 54-74)
SaveToken(t) == tokenFile' = <<t>>

\* a refresh that takes the refresh token of the response even when the
\* response has none
RefreshFinishOverwrite(g) ==
  /\ pc[g] = "rf_set_rest"
  /\ tokenData' = [tokenData EXCEPT
                     !.RefreshToken = rfResult[g].RefreshToken,
                     !.ExpiresIn = rfResult[g].ExpiresIn,
                     !.Scopes = rfResult[g].Scopes,
                     !.ObtainedAt = now]
  /\ rfResult' = [rfResult EXCEPT ![g] = NoRefreshResult]
  /\ \/ /\ SaveToken(tokenData')
        /\ pc' = [pc EXCEPT ![g] = "ev_settoken"]
        /\ UNCHANGED <<mu, result>>
     \/ /\ tokenFile' = tokenFile
        /\ result' = [result EXCEPT ![g] = ErrResult("save")]
        /\ mu' = 0
        /\ pc' = [pc EXCEPT ![g] = "done"]
  /\ flowFrame
  /\ UNCHANGED <<endpoint, now, token, credFile, issued, phase, reqs, nref, nforced, startCred>>

\* RefreshAccessToken: the refresh token is kept when the response has
\* none, ExpiresIn, Scopes and ObtainedAt are replaced (lines 137-142), then
\* return SaveToken(token) (line 144): on success ensureValidToken goes on
\* to line 72, on failure it returns the error
RefreshFinish(g) ==
  /\ pc[g] = "rf_set_rest"
  /\ tokenData' = [tokenData EXCEPT
                     !.RefreshToken = IF rfResult[g].RefreshToken # NoToken
                                        THEN rfResult[g].RefreshToken ELSE @,
                     !.ExpiresIn = rfResult[g].ExpiresIn,
                     !.Scopes = rfResult[g].Scopes,
                     !.ObtainedAt = now]
  /\ rfResult' = [rfResult EXCEPT ![g] = NoRefreshResult]
  /\ \/ /\ SaveToken(tokenData')
        /\ pc' = [pc EXCEPT ![g] = "ev_settoken"]
        /\ UNCHANGED <<mu, result>>
     \/ /\ tokenFile' = tokenFile
        /\ result' = [result EXCEPT ![g] = ErrResult("save")]
        /\ mu' = 0
        /\ pc' = [pc EXCEPT ![g] = "done"]
  /\ flowFrame
  /\ UNCHANGED <<endpoint, now, token, credFile, issued, phase, reqs, nref, nforced, startCred>>

\* ensureValidToken: c.token = c.tokenData.AccessToken; unlock (72-73)
EnsureSetToken(g) ==
  /\ pc[g] = "ev_settoken"
  /\ token' = tokenData.AccessToken
  /\ mu' = 0
  /\ pc' = [pc EXCEPT ![g] = AfterEnsure(g)]
  /\ flowFrame
  /\ UNCHANGED <<endpoint, now, tokenData, tokenFile, credFile, issued,
                 phase, rfResult, reqs, nref, nforced, startCred, result>>

\* the method each goroutine calls, in turn Post, Get and Put (lines 131-225):
\* Post and Put hand do a strings.Reader over the marshalled JSON and the
\* content type, Get hands it a nil body and no content type
CallOf(g) ==
  IF g % 3 = 1
    THEN [method |-> "POST", path |-> "/repositories/ws/repo",
          data |-> <<"{", "scm", "}">>, contentType |-> "application/json"]
  ELSE IF g % 3 = 2
    THEN [method |-> "GET", path |-> "/repositories/ws", data |-> <<>>,
          contentType |-> ""]
  ELSE [method |-> "PUT", path |-> "/repositories/ws/repo/src",
        data |-> <<"{", "name", "}">>, contentType |-> "application/json"]

\* what is left to read of a reader over data after n bytes were read
Unread(data, n) == SubSeq(data, n + 1, Len(data))

\* c.http.Do sends the request body: it reads the reader to its end
ReadBySend(data) == Len(data)

\* the request http.NewRequest(method, u, body) builds when n bytes of the
\* reader were read before, with the headers do sets on it
NewRequest(g, tok, n) ==
  [tok |-> tok, method |-> CallOf(g).method, url |-> CallOf(g).path,
   contentType |-> CallOf(g).contentType, body |-> Unread(CallOf(g).data, n)]

\* the record of a request sent: the bearer token it carried, how much of
\* the call's reader had been read when it was built, and its outcome
Sent(tok, n, o) == [tok |-> tok, read |-> n, status |-> o]

\* what an unlocked read of c.token can return: the stored value, or a torn
\* string when another goroutine is at its write of c.token (line 72)
ReadToken(g) ==
  {token} \cup (IF \E h \in Goroutines \ {g} : pc[h] = "ev_settoken"
                  THEN {TornToken} ELSE {})

\* do: the request is built with "Bearer "+c.token and sent (lines 82-103);
\* a transport error is returned, a status other than 401 is returned as the
\* response, a 401 goes on to the retry condition
DoSend(g) ==
  /\ pc[g] = "send"
  /\ \E tok \in ReadToken(g), o \in ApiOutcomes :
       /\ reqs' = [reqs EXCEPT ![g] = Append(@, Sent(tok, 0, o))]
       /\ IF o = 0
            THEN /\ result' = [result EXCEPT ![g] = ErrResult("executing")]
                 /\ pc' = [pc EXCEPT ![g] = "done"]
            ELSE IF o = StatusUnauthorized
                   THEN /\ result' = result
                        /\ pc' = [pc EXCEPT ![g] = "check401"]
                   ELSE /\ result' = [result EXCEPT ![g] = RespResult(o)]
                        /\ pc' = [pc EXCEPT ![g] = "done"]
  /\ flowFrame
  /\ UNCHANGED <<endpoint, now, tokenData, token, mu, tokenFile, credFile, issued,
                 phase, rfResult, nref, nforced, startCred>>

\* do: the retry condition of line 106 on a 401, read without the lock:
\* c.tokenData != nil && c.tokenData.RefreshToken != ""
DoCheck401(g) ==
  /\ pc[g] = "check401"
  /\ IF tokenData.RefreshToken # NoToken
       THEN /\ pc' = [pc EXCEPT ![g] = "force"]
            /\ result' = result
       ELSE /\ pc' = [pc EXCEPT ![g] = "done"]
            /\ result' = [result EXCEPT ![g] = RespResult(StatusUnauthorized)]
  /\ flowFrame
  /\ UNCHANGED <<endpoint, now, tokenData, token, mu, tokenFile, credFile, issued,
                 phase, rfResult, reqs, nref, nforced, startCred>>

\* do: lock, ObtainedAt = time.Time{}, unlock (lines 108-110), then
\* ensureValidToken is called again (line 111)
DoForceExpiry(g) ==
  /\ pc[g] = "force"
  /\ Lock(g)
  /\ tokenData' = [tokenData EXCEPT !.ObtainedAt = ZeroTime]
  /\ phase' = [phase EXCEPT ![g] = 2]
  /\ pc' = [pc EXCEPT ![g] = "ev_lock"]
  /\ flowFrame
  /\ UNCHANGED <<endpoint, now, token, mu, tokenFile, credFile, issued,
                 rfResult, reqs, nref, nforced, startCred, result>>

\* a resend that treats a 401 like the first attempt does and retries again
DoResendLoop(g) ==
  /\ pc[g] = "resend"
  /\ \E tok \in ReadToken(g), o \in ApiOutcomes :
       /\ reqs' = [reqs EXCEPT ![g] =
                    Append(@, Sent(tok, ReadBySend(CallOf(g).data), o))]
       /\ IF o = StatusUnauthorized
            THEN /\ result' = result
                 /\ pc' = [pc EXCEPT ![g] = "check401"]
            ELSE /\ result' = [result EXCEPT ![g] =
                                 IF o = 0 THEN ErrResult("executing") ELSE RespResult(o)]
                 /\ pc' = [pc EXCEPT ![g] = "done"]
  /\ flowFrame
  /\ UNCHANGED <<endpoint, now, tokenData, token, mu, tokenFile, credFile, issued,
                 phase, rfResult, nref, nforced, startCred>>

\* do: the request is rebuilt with "Bearer "+c.token from the same method,
\* URL and reader, whose data the first attempt has read, and sent again;
\* its outcome is returned whatever it is (lines 116-125)
DoResend(g) ==
  /\ pc[g] = "resend"
  /\ \E tok \in ReadToken(g), o \in ApiOutcomes :
       /\ reqs' = [reqs EXCEPT ![g] =
                    Append(@, Sent(tok, ReadBySend(CallOf(g).data), o))]
       /\ result' = [result EXCEPT ![g] =
                       IF o = 0 THEN ErrResult("executing") ELSE RespResult(o)]
  /\ pc' = [pc EXCEPT ![g] = "done"]
  /\ flowFrame
  /\ UNCHANGED <<endpoint, now, tokenData, token, mu, tokenFile, credFile, issued,
                 phase, rfResult, nref, nforced, startCred>>

NextClient ==
  \E g \in Goroutines :
    \/ EnsureCheck(g)
    \/ RefreshFail(g)
    \/ RefreshOK(g)
    \/ RefreshFinish(g)
    \/ EnsureSetToken(g)
    \/ DoSend(g)
    \/ DoCheck401(g)
    \/ DoForceExpiry(g)
    \/ DoResend(g)

\* ===================================================== request path claims
RECURSIVE SumTo(_, _)
SumTo(f, n) == IF n = 0 THEN 0 ELSE f[n] + SumTo(f, n - 1)
\* refresh requests received by the token endpoint
TotalRefreshes == SumTo(nref, NumGoroutines)

\* errors a call returns because its refresh attempt failed
RefreshErrors == RefreshFailures \cup {"save"}
RefreshErrored(g) ==
  pc[g] = "done" /\ result[g].kind = "err" /\ result[g].err \in RefreshErrors

\* RefreshAccessToken is running in goroutine g
InRefresh(g) == pc[g] \in {"rf_request", "rf_set_rest"}

\* the credential is half refreshed: some of the response has been
\* assigned and c.token does not yet carry the new access token
MidRefresh == \E h \in Goroutines : pc[h] \in {"rf_set_rest", "ev_settoken"}

EnteredExpired ==
  IsExpired(startCred.td, now) /\ startCred.td.RefreshToken # NoToken
EndpointAnswered ==
  \A g \in Goroutines : ~(result[g].kind = "err" /\ result[g].err \in RefreshFailures)
FirstAttemptsOver ==
  \A g \in Goroutines : phase[g] = 1 /\ (Len(reqs[g]) = 1 \/ pc[g] = "done")

\* C1: when all N goroutines enter the request path on an expired
\* credential that has a refresh token, and the token endpoint answers every
\* refresh request successfully, exactly one refresh request is sent and
\* every call sends its request with the same refreshed access token.
C1_Claim ==
  (EnteredExpired /\ EndpointAnswered /\ FirstAttemptsOver) =>
     /\ TotalRefreshes = 1
     /\ \A g \in Goroutines :
          Len(reqs[g]) = 1 /\ reqs[g][1].tok = InitialToken + 1

\* the call of g got a 401 on its first request while the credential had a
\* refresh token, and has returned
Retried(g) == pc[g] = "done" /\ phase[g] = 2

\* C2 (as claimed): a call whose first response is 401 performs exactly one
\* forced refresh and exactly one resend and returns the second response.
C2_Claim ==
  \A g \in Goroutines :
    Retried(g) =>
      /\ nforced[g] = 1
      /\ Len(reqs[g]) = 2
      /\ result[g].kind = "resp"
      /\ result[g].status = reqs[g][2].status

\* C2 (amended): a call never sends more than two API requests nor more
\* than one forced refresh request; after a 401 it either returns the error
\* of the failed refresh without resending, or resends exactly once and
\* returns the outcome of the second request whatever it is.
C2_RetryOnce ==
  \A g \in Goroutines :
    /\ Len(reqs[g]) <= 2
    /\ nforced[g] <= 1
    /\ Retried(g) =>
         /\ reqs[g][1].status = StatusUnauthorized
         /\ IF RefreshErrored(g)
              THEN Len(reqs[g]) = 1 /\ nforced[g] = 1
              ELSE /\ Len(reqs[g]) = 2
                   /\ result[g] = IF reqs[g][2].status = 0
                                    THEN ErrResult("executing")
                                    ELSE RespResult(reqs[g][2].status)

\* an upstream that answered 401 twice: two requests, the 401 is returned
C2_Witness ==
  \E g \in Goroutines :
    /\ Retried(g)
    /\ nforced[g] = 1
    /\ Len(reqs[g]) = 2
    /\ reqs[g][2].status = StatusUnauthorized
    /\ result[g] = RespResult(StatusUnauthorized)

\* no other goroutine has taken a step of its call
Alone(g) == \A h \in Goroutines \ {g} : pc[h] = "ev_lock" /\ phase[h] = 1

\* C3: when a refresh attempt returns an error, the in-memory credential
\* and the bearer token are what they were before the call began.
C3_Claim ==
  \A g \in Goroutines :
    (RefreshErrored(g) /\ Alone(g) /\ startCred.td.RefreshToken # NoToken) =>
       tokenData = startCred.td /\ token = startCred.tok

\* C4: an API request carries a refreshed access token only once the
\* record that LoadCredentials returns holds that token (or a later one).
C4_Claim ==
  \A g \in Goroutines : \A i \in 1..Len(reqs[g]) :
    reqs[g][i].tok > startCred.tok =>
       credFile # <<>> /\ credFile[1].AccessToken >= reqs[g][i].tok

\* C5: whenever a call reads the credential without the lock (c.token for
\* the Authorization header, RefreshToken for the retry condition), the
\* credential is not half refreshed.
C5_Claim ==
  [][\A g \in Goroutines :
       (pc[g] \in {"send", "check401", "resend"} /\ pc'[g] # pc[g])
          => ~MidRefresh]_vars

\* C6: at no time are two refresh calls for the client's credential in
\* progress, whether triggered by expiry or forced by a 401.
C6_OneRefreshAtATime ==
  Cardinality({g \in Goroutines : InRefresh(g)}) <= 1

\* a 401-forced refresh is running while another call, which would refresh
\* the now expired credential itself, waits for the lock
C6_Witness ==
  \E g, h \in Goroutines :
    /\ g # h
    /\ InRefresh(g) /\ phase[g] = 2
    /\ pc[h] = "ev_lock" /\ phase[h] = 1
    /\ IsExpired(tokenData, now)

\* the server started on an expired credential that has no refresh token
ReauthCase ==
  IsExpired(startCred.td, now) /\ startCred.td.RefreshToken = NoToken

\* C11: on an expired credential without a refresh token the request path
\* fails: no refresh request reaches the token endpoint, the credential's
\* tokens are never replaced, no API request is sent, every call that
\* returns returns an error.
C11_Claim ==
  ReauthCase =>
     /\ TotalRefreshes = 0
     /\ tokenData.AccessToken = startCred.td.AccessToken
     /\ tokenData.RefreshToken = startCred.td.RefreshToken
     /\ \A g \in Goroutines :
          reqs[g] = <<>> /\ (pc[g] = "done" => result[g].kind = "err")

\* goroutine g leaves ensureValidToken with a nil error in this step
EnsureReturnsNil(g) ==
  pc[g] \in {"ev_lock", "ev_settoken"} /\ pc'[g] \in {"send", "resend"}

\* C12: whenever ensureValidToken returns nil, the credential the client
\* then holds is not expired, whatever expires_in the refresh returned.
C12_Claim ==
  [][\A g \in Goroutines :
       EnsureReturnsNil(g) => ~IsExpired(tokenData', now')]_vars

\* ------------------------------------------------------------ OAuthLogin
\* the state generated for this run (lines 151-155) and another value
GenState == "s1"
OtherState == "s2"
NoCode == 0
NoError == [kind |-> "none", err |-> "", desc |-> ""]
FlowError(k) == [kind |-> k, err |-> "", desc |-> ""]
\* fmt.Errorf("OAuth error: %s - %s", errParam, errDesc) (line 188)
OAuthError(e, d) == [kind |-> "oauth", err |-> e, desc |-> d]

\* query strings of the GET /callback requests the listener may receive;
\* hasCode stands for a non-empty code parameter
CallbackRequests ==
  {[state |-> GenState, error |-> "", desc |-> "", hasCode |-> TRUE],
   [state |-> GenState, error |-> "", desc |-> "", hasCode |-> FALSE],
   [state |-> GenState, error |-> "access_denied", desc |-> "denied", hasCode |-> FALSE],
   [state |-> GenState, error |-> "access_denied", desc |-> "", hasCode |-> TRUE],
   [state |-> OtherState, error |-> "", desc |-> "", hasCode |-> TRUE],
   [state |-> OtherState, error |-> "access_denied", desc |-> "denied", hasCode |-> FALSE]}

\* a handler that does not compare the state parameter
CallbackHandlerNoState(r, c) ==
  IF r.error # ""
    THEN [ch |-> "err", err |-> OAuthError(r.error, r.desc), code |-> NoCode]
    ELSE IF c = NoCode
      THEN [ch |-> "err", err |-> FlowError("no_code"), code |-> NoCode]
      ELSE [ch |-> "code", err |-> NoError, code |-> c]

\* a handler that does not look at the error parameter
CallbackHandlerNoError(r, c) ==
  IF r.state # GenState
    THEN [ch |-> "err", err |-> FlowError("state_mismatch"), code |-> NoCode]
    ELSE IF c = NoCode
      THEN [ch |-> "err", err |-> FlowError("no_code"), code |-> NoCode]
      ELSE [ch |-> "code", err |-> NoError, code |-> c]

\* the /callback handler up to its channel send (lines 179-201): which
\* channel it sends on and what it sends; c is the request's code
CallbackHandler(r, c) ==
  IF r.state # GenState
    THEN [ch |-> "err", err |-> FlowError("state_mismatch"), code |-> NoCode]
    ELSE IF r.error # ""
      THEN [ch |-> "err", err |-> OAuthError(r.error, r.desc), code |-> NoCode]
      ELSE IF c = NoCode
        THEN [ch |-> "err", err |-> FlowError("no_code"), code |-> NoCode]
        ELSE [ch |-> "code", err |-> NoError, code |-> c]

FlowIdle ==
  /\ flowPc = "off"
  /\ branch = "none"
  /\ code = NoCode
  /\ listener = "closed"
  /\ servePc = "done"
  /\ codeCh = <<>>
  /\ errCh = <<>>
  /\ handlers = <<>>
  /\ exchanged = <<>>
  /\ flowResult = NoError

\* the token record an earlier login left in token.json and credentials.json
StoredBefore(n) ==
  [AccessToken |-> InitialToken, RefreshToken |-> InitialToken,
   ExpiresIn |-> 3600, Scopes |-> StoredScopes, ObtainedAt |-> n - 7200]

\* OAuthLogin after line 209: state generated, port bound, the server
\* goroutine serving; no client exists in the login command, which is run
\* over the files of an earlier login
InitOAuth ==
  /\ now \in StartTimes
  /\ endpoint \in [rotate : BOOLEAN, expiresIn : ExpiresInValues]
  /\ tokenData = [AccessToken |-> NoToken, RefreshToken |-> NoToken,
                  ExpiresIn |-> 0, Scopes |-> "", ObtainedAt |-> ZeroTime]
  /\ token = NoToken
  /\ mu = 0
  /\ tokenFile = <<StoredBefore(now)>>
  /\ credFile = <<StoredBefore(now)>>
  /\ issued = InitialToken
  /\ pc = [g \in Goroutines |-> "off"]
  /\ phase = [g \in Goroutines |-> 1]
  /\ rfResult = [g \in Goroutines |-> NoRefreshResult]
  /\ reqs = [g \in Goroutines |-> <<>>]
  /\ nref = [g \in Goroutines |-> 0]
  /\ nforced = [g \in Goroutines |-> 0]
  /\ startCred = [td |-> tokenData, tok |-> token]
  /\ result = [g \in Goroutines |-> NoResult]
  /\ flowPc = "open_browser"
  /\ branch = "none"
  /\ code = NoCode
  /\ listener = "open"
  /\ servePc = "serving"
  /\ codeCh = <<>>
  /\ errCh = <<>>
  /\ handlers = <<>>
  /\ exchanged = <<>>
  /\ flowResult = NoError
  /\ CliIdle
  /\ ApiIdle

clientFrame == UNCHANGED <<endpoint, now, tokenData, token, mu, credFile,
                           pc, phase, rfResult, reqs, nref, nforced, startCred,
                           result, cliVars, apiVars, toolVars>>

\* the listener accepts a GET /callback and its handler runs up to the
\* channel send; the code of the i-th request is i
CallbackArrive ==
  /\ flowPc # "off"
  /\ listener = "open"
  /\ Len(handlers) < MaxCallbacks
  /\ \E r \in CallbackRequests :
       LET c == IF r.hasCode THEN Len(handlers) + 1 ELSE NoCode IN
       handlers' = Append(handlers,
                     [req |-> r, out |-> CallbackHandler(r, c),
                      st |-> "sending", late |-> branch = "timeout"])
  /\ clientFrame
  /\ UNCHANGED <<tokenFile, issued, flowPc, branch, code, listener, servePc,
                 codeCh, errCh, exchanged, flowResult>>

\* a send on codeCh or errCh (lines 181, 188, 195, 201, 207): it is handed
\* to OAuthLogin when that is blocked in its select, it is buffered when
\* the channel has room, and it blocks otherwise
ChanSend(m) ==
  IF flowPc = "select"
    THEN /\ flowPc' = "shutdown"
         /\ branch' = m.ch
         /\ code' = m.code
         /\ flowResult' = m.err
         /\ UNCHANGED <<codeCh, errCh>>
    ELSE /\ IF m.ch = "code"
              THEN /\ Len(codeCh) < ChanCap
                   /\ codeCh' = Append(codeCh, m)
                   /\ errCh' = errCh
              ELSE /\ Len(errCh) < ChanCap
                   /\ errCh' = Append(errCh, m)
                   /\ codeCh' = codeCh
         /\ UNCHANGED <<flowPc, branch, code, flowResult>>

\* the handler of the i-th callback sends and returns
HandlerSend(i) ==
  /\ i \in 1..Len(handlers)
  /\ handlers[i].st = "sending"
  /\ ChanSend(handlers[i].out)
  /\ handlers' = [handlers EXCEPT ![i].st = "done"]
  /\ clientFrame
  /\ UNCHANGED <<tokenFile, issued, listener, servePc, exchanged>>

\* srv.Serve returns an error other than ErrServerClosed (line 206); Serve
\* closes the listener as it returns
ServeFail ==
  /\ servePc = "serving"
  /\ listener = "open"
  /\ servePc' = "send_err"
  /\ listener' = "closed"
  /\ clientFrame
  /\ UNCHANGED <<tokenFile, issued, flowPc, branch, code, codeCh, errCh,
                 handlers, exchanged, flowResult>>

\* errCh <- err of the server goroutine (line 207)
ServeSendErr ==
  /\ servePc = "send_err"
  /\ ChanSend([ch |-> "err", err |-> FlowError("serve"), code |-> NoCode])
  /\ servePc' = "done"
  /\ clientFrame
  /\ UNCHANGED <<tokenFile, issued, listener, handlers, exchanged>>

\* OAuthLogin reaches its select (line 220): a case that is ready is taken,
\* any one of them when both channels hold a value; otherwise it blocks and
\* the 5-minute timer starts
SelectEnter ==
  /\ flowPc = "open_browser"
  /\ \/ /\ codeCh = <<>> /\ errCh = <<>>
        /\ flowPc' = "select"
        /\ UNCHANGED <<branch, code, flowResult, codeCh, errCh>>
     \/ /\ codeCh # <<>>
        /\ branch' = "code"
        /\ code' = Head(codeCh).code
        /\ codeCh' = Tail(codeCh)
        /\ flowPc' = "shutdown"
        /\ UNCHANGED <<flowResult, errCh>>
     \/ /\ errCh # <<>>
        /\ branch' = "err"
        /\ flowResult' = Head(errCh).err
        /\ errCh' = Tail(errCh)
        /\ flowPc' = "shutdown"
        /\ UNCHANGED <<code, codeCh>>
  /\ clientFrame
  /\ UNCHANGED <<tokenFile, issued, listener, servePc, handlers, exchanged>>

\* time.After(5 * time.Minute) fires while OAuthLogin is blocked (line 225)
Timeout ==
  /\ flowPc = "select"
  /\ branch' = "timeout"
  /\ flowResult' = FlowError("timeout")
  /\ flowPc' = "shutdown"
  /\ clientFrame
  /\ UNCHANGED <<tokenFile, issued, code, listener, servePc, codeCh, errCh,
                 handlers, exchanged>>

\* srv.Shutdown closes the listener (lines 223, 226, 230); Serve then
\* returns ErrServerClosed and the server goroutine ends
ShutdownClose ==
  /\ flowPc = "shutdown"
  /\ listener' = "closed"
  /\ servePc' = IF servePc = "serving" THEN "done" ELSE servePc
  /\ flowPc' = "shutdown_wait"
  /\ clientFrame
  /\ UNCHANGED <<tokenFile, issued, branch, code, codeCh, errCh, handlers,
                 exchanged, flowResult>>

\* srv.Shutdown(context.Background()) returns once no connection is
\* active, that is once every handler has returned; the error cases then
\* return the error, the code case goes on to the exchange
ShutdownReturn ==
  /\ flowPc = "shutdown_wait"
  /\ \A i \in 1..Len(handlers) : handlers[i].st = "done"
  /\ flowPc' = IF branch = "code" THEN "exchange" ELSE "returned"
  /\ clientFrame
  /\ UNCHANGED <<tokenFile, issued, branch, code, listener, servePc, codeCh,
                 errCh, handlers, exchanged, flowResult>>

\* ways the exchange fails: transport error, non-200, unparsable body
ExchangeFailures == {"exchanging", "exchange_failed", "parsing"}

\* an exchange that writes the token before it looks at the response
ExchangeFailAfterSave ==
  /\ flowPc = "exchange"
  /\ exchanged' = Append(exchanged, code)
  /\ \E f \in ExchangeFailures : flowResult' = FlowError(f)
  /\ flowPc' = "returned"
  /\ SaveToken([AccessToken |-> NoToken, RefreshToken |-> NoToken,
                ExpiresIn |-> 0, Scopes |-> "", ObtainedAt |-> now])
  /\ clientFrame
  /\ UNCHANGED <<issued, branch, code, listener, servePc, codeCh,
                 errCh, handlers>>

\* the code is posted to the token endpoint and the exchange fails
\* (lines 235-271)
ExchangeFail ==
  /\ flowPc = "exchange"
  /\ exchanged' = Append(exchanged, code)
  /\ \E f \in ExchangeFailures : flowResult' = FlowError(f)
  /\ flowPc' = "returned"
  /\ clientFrame
  /\ UNCHANGED <<tokenFile, issued, branch, code, listener, servePc, codeCh,
                 errCh, handlers>>

\* the code is posted, the token endpoint answers 200, and the token is
\* written with SaveToken, which may fail (lines 235-293)
ExchangeOK ==
  /\ flowPc = "exchange"
  /\ exchanged' = Append(exchanged, code)
  /\ issued' = issued + 1
  /\ \/ /\ SaveToken([AccessToken |-> issued + 1,
                      RefreshToken |-> IF endpoint.rotate THEN issued + 1 ELSE NoToken,
                      ExpiresIn |-> endpoint.expiresIn,
                      Scopes |-> GrantedScopes,
                      ObtainedAt |-> now])
        /\ flowResult' = NoError
     \/ /\ tokenFile' = tokenFile
        /\ flowResult' = FlowError("saving")
  /\ flowPc' = "returned"
  /\ clientFrame
  /\ UNCHANGED <<branch, code, listener, servePc, codeCh, errCh, handlers>>

NextOAuth ==
  \/ CallbackArrive
  \/ \E i \in 1..MaxCallbacks : HandlerSend(i)
  \/ ServeFail
  \/ ServeSendErr
  \/ SelectEnter
  \/ Timeout
  \/ ShutdownClose
  \/ ShutdownReturn
  \/ ExchangeFail
  \/ ExchangeOK

SpecOAuth == InitOAuth /\ [][NextOAuth]_vars

\* every goroutine that can take a step eventually takes one, and the
\* timer fires; requests to the listener are up to the environment
FairOAuth ==
  /\ SpecOAuth
  /\ WF_vars(\E i \in 1..MaxCallbacks : HandlerSend(i))
  /\ WF_vars(ServeSendErr)
  /\ WF_vars(SelectEnter)
  /\ WF_vars(Timeout)
  /\ WF_vars(ShutdownClose)
  /\ WF_vars(ShutdownReturn)
  /\ WF_vars(ExchangeFail \/ ExchangeOK)

\* ============================================================ flow claims
Callbacks == 1..Len(handlers)
Mismatched(i) == handlers[i].req.state # GenState
ProviderError(i) == handlers[i].req.state = GenState /\ handlers[i].req.error # ""
ValidCode(i) ==
  /\ handlers[i].req.state = GenState
  /\ handlers[i].req.error = ""
  /\ handlers[i].req.hasCode

C9_Claim == <>(flowPc = "returned" /\ listener = "closed")

AuthTypeAPIToken == "api_token"
AuthTypeOAuth == "oauth"

\* the fields of Credentials, and those tagged omitempty (part_006 23-39)
CredFields ==
  {"AuthType", "CreatedAt", "Email", "APIToken", "AccessToken", "RefreshToken",
   "TokenType", "ExpiresIn", "Scopes", "ClientID", "ClientSecret"}
OmitEmpty == CredFields \ {"AuthType", "CreatedAt"}

\* the zero value of Credentials; tokens are numbers, NoToken the empty one
ZeroCredentials ==
  [AuthType |-> "", CreatedAt |-> ZeroTime, Email |-> "", APIToken |-> "",
   AccessToken |-> NoToken, RefreshToken |-> NoToken, TokenType |-> "",
   ExpiresIn |-> 0, Scopes |-> "", ClientID |-> "", ClientSecret |-> ""]

IsOAuth(c) == c.AuthType = AuthTypeOAuth
IsAPIToken(c) == c.AuthType = AuthTypeAPIToken

\* Credentials.IsExpired: false unless OAuth, else
\* time.Now().After(CreatedAt + ExpiresIn - 5min)
CredentialsIsExpired(c, n) ==
  IF ~IsOAuth(c) THEN FALSE ELSE n > (c.CreatedAt + c.ExpiresIn) - Buffer

\* an encoder that leaves the client secret out of the object
MarshalWithoutSecret(c) ==
  [k \in {f \in CredFields \ {"ClientSecret"} :
            ~(f \in OmitEmpty /\ c[f] = ZeroCredentials[f])} |-> c[k]]

\* json.MarshalIndent(creds): the JSON object, keyed by field; a field
\* tagged omitempty is left out when it holds its zero value; created_at is
\* written as the RFC 3339 text of the instant, which stands for itself here
MarshalCredentials(c) ==
  [k \in {f \in CredFields :
            ~(f \in OmitEmpty /\ c[f] = ZeroCredentials[f])} |-> c[k]]

\* json.Unmarshal(data, &creds) into a zero Credentials: a key of the
\* object sets its field, a field without a key keeps its zero value
UnmarshalCredentials(o) ==
  [k \in CredFields |-> IF k \in DOMAIN o THEN o[k] ELSE ZeroCredentials[k]]

\* LoadCredentials on a credentials.json that is absent (<<>>) or holds
\* an object
LoadCredentials(f) ==
  IF f = <<>>
    THEN [err |-> "reading credentials file", creds |-> ZeroCredentials]
    ELSE [err |-> "", creds |-> UnmarshalCredentials(f[1])]

\* permission bits: owner, group, others
Mode0700 == {"ur", "uw", "ux"}
Mode0600 == {"ur", "uw"}
\* a mode that grants nothing to group or others
OwnerOnly(m) == m \subseteq {"ur", "uw", "ux"}

\* os.MkdirAll(dir, perm): an existing directory is left as it is, a
\* missing one is created with perm less the umask
MkdirAll(d, perm) == IF d = <<>> THEN <<perm \ umask>> ELSE d

\* os.WriteFile(path, data, perm), the mode it leaves: perm less the umask
\* when it creates the file, the mode the file had when it exists
WriteFile(m, perm) == IF m = <<>> THEN <<perm \ umask>> ELSE m

\* the modes after SaveCredentials (lines 76, 85) and after SaveToken
\* (oauth.go 60, 69) succeeded, and after either failed at its WriteFile
SaveCredentialsModes(m) ==
  [m EXCEPT !.dir = MkdirAll(@, Mode0700), !.cred = WriteFile(@, Mode0600)]
SaveTokenModes(m) ==
  [m EXCEPT !.dir = MkdirAll(@, Mode0700), !.tok = WriteFile(@, Mode0600)]
SaveFailedModes(m) == [m EXCEPT !.dir = MkdirAll(@, Mode0700)]

\* os.Remove(path): ENOENT when the file does not exist
OsRemove(f) == IF f = <<>> THEN "ENOENT" ELSE ""

\* a Remove that reports every error of os.Remove
RemoveCredentialsStrict(f) == OsRemove(f)

\* RemoveCredentials: err != nil && !os.IsNotExist(err) is returned, any
\* other outcome is nil (lines 119-123)
RemoveCredentials(f) ==
  IF OsRemove(f) # "" /\ OsRemove(f) # "ENOENT" THEN OsRemove(f) ELSE ""

\* NewClient and NewClientFromToken (part_008 31-53)
NewClient(username, password, tok) ==
  [username |-> username, password |-> password, token |-> tok,
   tokenData |-> <<>>]
NewClientFromToken(td) ==
  [username |-> "", password |-> "", token |-> td.AccessToken,
   tokenData |-> <<td>>]

NoHeader == [scheme |-> "none", user |-> "", secret |-> "", token |-> NoToken]
Bearer(tok) == [scheme |-> "Bearer", user |-> "", secret |-> "", token |-> tok]
Basic(u, p) == [scheme |-> "Basic", user |-> u, secret |-> p, token |-> NoToken]

\* a header choice that looks at the username and password first
AuthHeaderBasicFirst(c) ==
  IF c.username # "" /\ c.password # "" THEN Basic(c.username, c.password)
  ELSE IF c.token # NoToken THEN Bearer(c.token)
  ELSE NoHeader

\* do, lines 89-93: the Authorization header of a request
AuthHeader(c) ==
  IF c.token # NoToken THEN Bearer(c.token)
  ELSE IF c.username # "" /\ c.password # "" THEN Basic(c.username, c.password)
  ELSE NoHeader

\* Credentials.ToTokenData and CredentialsFromTokenData: the OAuth fields
\* copied one to one, CreatedAt as ObtainedAt
ToTokenData(c) ==
  [AccessToken |-> c.AccessToken, RefreshToken |-> c.RefreshToken,
   TokenType |-> c.TokenType, ExpiresIn |-> c.ExpiresIn, Scopes |-> c.Scopes,
   ObtainedAt |-> c.CreatedAt, ClientID |-> c.ClientID,
   ClientSecret |-> c.ClientSecret]
CredentialsFromTokenData(td) ==
  [ZeroCredentials EXCEPT
     !.AuthType = AuthTypeOAuth, !.CreatedAt = td.ObtainedAt,
     !.AccessToken = td.AccessToken, !.RefreshToken = td.RefreshToken,
     !.TokenType = td.TokenType, !.ExpiresIn = td.ExpiresIn,
     !.Scopes = td.Scopes, !.ClientID = td.ClientID,
     !.ClientSecret = td.ClientSecret]

\* ----------------------------------------------------------- command line
\* no Client exists in the process and no login flow runs in it
ClientOff ==
  /\ tokenData = [AccessToken |-> NoToken, RefreshToken |-> NoToken,
                  ExpiresIn |-> 0, Scopes |-> "", ObtainedAt |-> ZeroTime]
  /\ token = NoToken
  /\ mu = 0
  /\ issued = InitialToken
  /\ pc = [g \in Goroutines |-> "off"]
  /\ phase = [g \in Goroutines |-> 1]
  /\ rfResult = [g \in Goroutines |-> NoRefreshResult]
  /\ reqs = [g \in Goroutines |-> <<>>]
  /\ nref = [g \in Goroutines |-> 0]
  /\ nforced = [g \in Goroutines |-> 0]
  /\ startCred = [td |-> tokenData, tok |-> token]
  /\ result = [g \in Goroutines |-> NoResult]

\* a command touches the two files and its own process only
cliFrame ==
  UNCHANGED <<endpoint, now, tokenData, token, mu, issued, pc, phase, rfResult,
              reqs, nref, nforced, startCred, result, flowVars, apiVars,
              toolVars>>

\* the credential APITokenLogin stores (lines 181-186)
APITokenCredentials(email, tok, at) ==
  [ZeroCredentials EXCEPT !.AuthType = AuthTypeAPIToken, !.CreatedAt = at,
                          !.Email = email, !.APIToken = tok]

\* what the home directory may hold when a command starts: nothing, a
\* config directory created by this program (0700) or by something else
\* (0755), and in it a credentials.json written by an earlier login (0600)
\* or put there by other means (0644)
InitialDisks ==
  {[modes |-> NoModes, cred |-> <<>>]}
  \cup {[modes |-> [NoModes EXCEPT !.dir = <<d>>], cred |-> <<>>] :
          d \in {Mode0700, Mode0700 \cup {"gr", "gx", "or", "ox"}}}
  \cup {[modes |-> [dir |-> <<d>>, cred |-> <<f>>, tok |-> <<>>],
         cred |-> <<MarshalCredentials(APITokenCredentials("old@b.com", "tok000", 5000))>>] :
          d \in {Mode0700, Mode0700 \cup {"gr", "gx", "or", "ox"}},
          f \in {Mode0600, Mode0600 \cup {"gr", "or"}}}

\* a shell in which one of the commands is about to run
InitCli ==
  /\ now \in StartTimes
  /\ endpoint \in [rotate : BOOLEAN, expiresIn : ExpiresInValues]
  /\ ClientOff
  /\ FlowIdle
  /\ ApiIdle
  /\ env \in [token : {NoToken, 9}, username : {"", "user"},
              password : {"", "app-pw"}]
  /\ umask \in {{"gw", "ow"}, {"gr", "gw", "gx", "or", "ow", "ox"}}
  /\ \E d \in InitialDisks : modes = d.modes /\ credFile = d.cred
  /\ tokenFile = <<>>
  /\ cmd = NoCmd
  /\ saved = <<>>

\* `bitbucket-mcp auth`: APITokenLogin reads email and token, verifies
\* them with GET /user, and stores them (part_006 127-196)
RunAuth ==
  \E email \in {"", "a@b.com"}, tok \in {"", "tok123"},
     verified \in BOOLEAN, written \in BOOLEAN :
    LET creds == APITokenCredentials(email, tok, now)
        err == IF email = "" THEN "email is required"
               ELSE IF tok = "" THEN "API token is required"
               ELSE IF ~verified THEN "credential verification failed"
               ELSE IF ~written THEN "saving credentials"
               ELSE ""
    IN /\ cmd' = [name |-> "auth", err |-> err, out |-> <<>>]
       /\ IF err = ""
            THEN /\ credFile' = <<MarshalCredentials(creds)>>
                 /\ modes' = SaveCredentialsModes(modes)
                 /\ saved' = <<creds>>
            ELSE IF err = "saving credentials"
              THEN /\ modes' = SaveFailedModes(modes)
                   /\ saved' = <<>>
                   /\ UNCHANGED credFile
              ELSE UNCHANGED <<credFile, modes, saved>>
       /\ UNCHANGED <<tokenFile, env, umask>>
       /\ cliFrame

\* client id and secret of BITBUCKET_OAUTH_CLIENT_ID / _SECRET
OAuthClientID == "client-id"
OAuthClientSecret == "client-secret"

\* `bitbucket-mcp auth --oauth`: runOAuthLogin (main.go 96-125). OAuthLogin
\* fails, or its exchange is answered and it stores the token with
\* SaveToken (oauth.go 273-286); then token.json is read back and copied
\* to credentials.json, a failure of which is only a warning
RunOAuthLogin ==
  \E exchangedOK \in BOOLEAN, scopes \in {"", "repository"},
     tokenWritten \in BOOLEAN, credWritten \in BOOLEAN :
    LET td == [AccessToken |-> InitialToken + 1,
               RefreshToken |-> IF endpoint.rotate THEN InitialToken + 1 ELSE NoToken,
               TokenType |-> "bearer",
               ExpiresIn |-> endpoint.expiresIn,
               Scopes |-> scopes,
               ObtainedAt |-> now,
               ClientID |-> OAuthClientID,
               ClientSecret |-> OAuthClientSecret]
        creds == CredentialsFromTokenData(td)
    IN /\ IF ~exchangedOK
            THEN /\ cmd' = [name |-> "oauth", err |-> "auth failed", out |-> <<>>]
                 /\ UNCHANGED <<tokenFile, credFile, modes, saved>>
            ELSE IF ~tokenWritten
              THEN /\ cmd' = [name |-> "oauth", err |-> "saving token", out |-> <<>>]
                   /\ modes' = SaveFailedModes(modes)
                   /\ UNCHANGED <<tokenFile, credFile, saved>>
              ELSE /\ cmd' = [name |-> "oauth", err |-> "",
                              out |-> [token |-> td, credWritten |-> credWritten]]
                   /\ SaveToken(td)
                   /\ IF credWritten
                        THEN /\ credFile' = <<MarshalCredentials(creds)>>
                             /\ modes' = SaveCredentialsModes(SaveTokenModes(modes))
                             /\ saved' = <<creds>>
                        ELSE /\ modes' = SaveTokenModes(modes)
                             /\ saved' = <<>>
                             /\ UNCHANGED credFile
       /\ UNCHANGED <<env, umask>>
       /\ cliFrame

\* `bitbucket-mcp logout`: runLogout (main.go 173-179)
RunLogout ==
  /\ cmd' = [name |-> "logout", err |-> RemoveCredentials(credFile),
             out |-> [existed |-> credFile # <<>>,
                      again |-> cmd.name = "logout"]]
  /\ IF OsRemove(credFile) = ""
       THEN credFile' = <<>> /\ modes' = [modes EXCEPT !.cred = <<>>]
       ELSE UNCHANGED <<credFile, modes>>
  /\ saved' = <<>>
  /\ UNCHANGED <<tokenFile, env, umask>>
  /\ cliFrame

\* `bitbucket-mcp status`: runStatus (main.go 127-171) loads the stored
\* credential and asks an OAuth one whether it is expired
RunStatus ==
  /\ LET l == LoadCredentials(credFile) IN
       cmd' = [name |-> "status", err |-> "",
               out |-> [loadErr |-> l.err, creds |-> l.creds,
                        expired |-> l.err = "" /\ CredentialsIsExpired(l.creds, now)]]
  /\ UNCHANGED <<tokenFile, credFile, env, umask, modes, saved>>
  /\ cliFrame

\* `bitbucket-mcp`: runServer (main.go 34-78) picks the credential the
\* server's Client is built from; out.header is the Authorization header
\* that Client puts on a request (part_008 89-93)
RunServer ==
  /\ LET fromEnv == env.token # NoToken \/ (env.username # "" /\ env.password # "")
         l == LoadCredentials(credFile)
         client == IF fromEnv
                     THEN <<NewClient(env.username, env.password, env.token)>>
                   ELSE IF l.err # "" THEN <<>>
                   ELSE IF IsAPIToken(l.creds)
                     THEN <<NewClient(l.creds.Email, l.creds.APIToken, NoToken)>>
                   ELSE IF IsOAuth(l.creds)
                     THEN <<NewClientFromToken(ToTokenData(l.creds))>>
                   ELSE <<>>
     IN cmd' = [name |-> "server",
                err |-> IF client # <<>> THEN ""
                        ELSE IF l.err # "" THEN "No credentials found"
                        ELSE "Unknown auth type",
                out |-> [loaded |-> ~fromEnv,
                         client |-> client,
                         header |-> IF client = <<>> THEN NoHeader
                                    ELSE AuthHeader(client[1])]]
  /\ UNCHANGED <<tokenFile, credFile, env, umask, modes, saved>>
  /\ cliFrame

NextCli ==
  \/ RunAuth
  \/ RunOAuthLogin
  \/ RunLogout
  \/ RunStatus
  \/ RunServer

SpecCli == InitCli /\ [][NextCli]_vars

\* ---------------------------------------------------------------- expiry
\* stored credentials of both kinds, created at three instants, with the
\* lifetimes 0, 300 and 3600 seconds
ExpiryCredentials ==
  {[ZeroCredentials EXCEPT !.AuthType = a, !.CreatedAt = t, !.ExpiresIn = e,
                           !.AccessToken = InitialToken] :
     a \in {AuthTypeOAuth, AuthTypeAPIToken}, t \in {1000, 2000, 5000},
     e \in {0, 300, 3600}}

\* `bitbucket-mcp status` is about to run on one of them, at an instant
\* before, at or after CreatedAt + ExpiresIn - 5min and not before CreatedAt
InitExpiry ==
  /\ \E c \in ExpiryCredentials, d \in {-300, -1, 0, 1, 100, 300} :
       /\ now = (c.CreatedAt + c.ExpiresIn) - Buffer + d
       /\ now >= c.CreatedAt
       /\ credFile = <<MarshalCredentials(c)>>
  /\ endpoint = [rotate |-> FALSE, expiresIn |-> 3600]
  /\ ClientOff
  /\ FlowIdle
  /\ ApiIdle
  /\ env = NoEnv
  /\ umask = {}
  /\ modes = [dir |-> <<Mode0700>>, cred |-> <<Mode0600>>, tok |-> <<>>]
  /\ tokenFile = <<>>
  /\ cmd = NoCmd
  /\ saved = <<>>

NextExpiry == RunStatus

SpecExpiry == InitExpiry /\ [][NextExpiry]_vars

\* C13: for an OAuth credential, IsExpired is true exactly when
\* now >= createdAt + expiresInSeconds - 300, the instant of equality and
\* expiresInSeconds = 0 included, and false otherwise.
C13_Claim ==
  (cmd.name = "status" /\ cmd.out.loadErr = "" /\ IsOAuth(cmd.out.creds)) =>
     (cmd.out.expired <=>
        now >= (cmd.out.creds.CreatedAt + cmd.out.creds.ExpiresIn) - 300)

\* ------------------------------------------------------------ store claims
\* the last command stored a credential with SaveCredentials
SavedCredentials ==
  \/ cmd.name = "auth" /\ cmd.err = ""
  \/ cmd.name = "oauth" /\ cmd.err = "" /\ cmd.out.credWritten

\* C14: after a successful Save the credential file grants nothing to
\* group or others and its directory is owner-only, whatever existed
\* before; the same for token.json after SaveToken.
C14_Claim ==
  /\ SavedCredentials =>
       OwnerOnly(modes.cred[1]) /\ OwnerOnly(modes.dir[1])
  /\ (cmd.name = "oauth" /\ cmd.err = "") =>
       OwnerOnly(modes.tok[1]) /\ OwnerOnly(modes.dir[1])

\* C15: a credential of either kind that SaveCredentials stored is what
\* LoadCredentials returns, in every field, optional fields that are empty
\* or zero included; the status command that follows the Save loads it.
C15_RoundTrip ==
  saved # <<>> =>
     /\ LoadCredentials(credFile) = [err |-> "", creds |-> saved[1]]
     /\ cmd.name = "status" =>
          cmd.out.loadErr = "" /\ cmd.out.creds = saved[1]

\* an OAuth credential without refresh token, with expires_in 0 and no
\* scopes was saved and status loaded it
C15_Witness ==
  /\ saved # <<>>
  /\ IsOAuth(saved[1])
  /\ saved[1].RefreshToken = NoToken
  /\ saved[1].ExpiresIn = 0
  /\ saved[1].Scopes = ""
  /\ cmd.name = "status"
  /\ cmd.out.creds = saved[1]

\* C16: Remove returns success whether or not credentials.json exists and
\* leaves it absent, so a Remove after a Remove succeeds too.
C16_RemoveIdempotent ==
  cmd.name = "logout" => cmd.err = "" /\ credFile = <<>>

\* a logout that followed a logout and found no file
C16_Witness ==
  /\ cmd.name = "logout"
  /\ cmd.out.again
  /\ ~cmd.out.existed
  /\ cmd.err = ""

\* C17: the server authenticates with BITBUCKET_ACCESS_TOKEN when it is
\* set, else with BITBUCKET_USERNAME and BITBUCKET_APP_PASSWORD when both
\* are set, and in both cases never reads the stored credential; only
\* otherwise does it read and use the stored credential.
C17_SourcePriority ==
  cmd.name = "server" =>
    IF env.token # NoToken
      THEN ~cmd.out.loaded /\ cmd.out.header = Bearer(env.token)
    ELSE IF env.username # "" /\ env.password # ""
      THEN ~cmd.out.loaded /\ cmd.out.header = Basic(env.username, env.password)
    ELSE /\ cmd.out.loaded
         /\ LET l == LoadCredentials(credFile) IN
              IF l.err # ""
                THEN cmd.err # "" /\ cmd.out.header = NoHeader
              ELSE IF IsAPIToken(l.creds)
                THEN cmd.out.header = Basic(l.creds.Email, l.creds.APIToken)
              ELSE cmd.out.header = Bearer(l.creds.AccessToken)

\* only the username is set in the environment, and the server uses the
\* stored OAuth credential
C17_Witness ==
  /\ cmd.name = "server"
  /\ env.token = NoToken /\ env.username # "" /\ env.password = ""
  /\ cmd.out.loaded
  /\ cmd.out.header.scheme = "Bearer"

\* C19: after a successful logout neither credentials.json nor token.json
\* is left on disk.
C19_Claim ==
  (cmd.name = "logout" /\ cmd.err = "" /\ cmd.out.existed) =>
     credFile = <<>> /\ tokenFile = <<>>

\* C20: when the OAuth login command finishes successfully, LoadCredentials
\* returns an OAuth credential with the tokens, lifetime and scopes of the
\* exchange, the client id and secret used, and CreatedAt the time of the
\* exchange.
C20_Claim ==
  (cmd.name = "oauth" /\ cmd.err = "") =>
     LoadCredentials(credFile) =
       [err |-> "",
        creds |-> [ZeroCredentials EXCEPT
                     !.AuthType = AuthTypeOAuth,
                     !.CreatedAt = now,
                     !.AccessToken = cmd.out.token.AccessToken,
                     !.RefreshToken = cmd.out.token.RefreshToken,
                     !.TokenType = cmd.out.token.TokenType,
                     !.ExpiresIn = cmd.out.token.ExpiresIn,
                     !.Scopes = cmd.out.token.Scopes,
                     !.ClientID = OAuthClientID,
                     !.ClientSecret = OAuthClientSecret]]

\* -------------------------------------------------------- request methods
Methods == {"Get", "GetRaw", "Post", "Put", "Delete"}

\* responses do may hand to a method: c.http.Do follows redirects, a 304
\* or a 3xx without Location comes back as it is
Responses ==
  [status : {200, 201, 204, 299, 300, 304, 399, 400, 401, 404, 500},
   body : {"", "body"}]

\* fmt.Errorf("API error %d: %s", resp.StatusCode, string(data))
APIError(r) == <<r.status, r.body>>

\* Get, Post and Put: the body, or an error for a status of 400 and above
Get(r) ==
  IF r.status >= 400
    THEN [err |-> APIError(r), data |-> "", contentType |-> ""]
    ELSE [err |-> <<>>, data |-> r.body, contentType |-> ""]
Post(r) ==
  IF r.status >= 400
    THEN [err |-> APIError(r), data |-> "", contentType |-> ""]
    ELSE [err |-> <<>>, data |-> r.body, contentType |-> ""]
Put(r) ==
  IF r.status >= 400
    THEN [err |-> APIError(r), data |-> "", contentType |-> ""]
    ELSE [err |-> <<>>, data |-> r.body, contentType |-> ""]
\* GetRaw: the body and the Content-Type header
GetRaw(r) ==
  IF r.status >= 400
    THEN [err |-> APIError(r), data |-> "", contentType |-> ""]
    ELSE [err |-> <<>>, data |-> r.body, contentType |-> "application/json"]
\* Delete: nil, or the error
Delete(r) ==
  IF r.status >= 400
    THEN [err |-> APIError(r), data |-> "", contentType |-> ""]
    ELSE [err |-> <<>>, data |-> "", contentType |-> ""]

\* a method is called and do has returned a response to it
InitApi ==
  /\ now \in StartTimes
  /\ endpoint = [rotate |-> FALSE, expiresIn |-> 3600]
  /\ ClientOff
  /\ FlowIdle
  /\ CliIdle
  /\ tokenFile = <<>>
  /\ credFile = <<>>
  /\ apiCall \in {<<[method |-> m, resp |-> r]>> : m \in Methods, r \in Responses}
  /\ apiRet = <<>>
  /\ authz = <<>>
  /\ registry = <<>>
  /\ repoCall = <<>>

\* the method reads the response and returns
ApiReturn ==
  /\ apiRet = <<>>
  /\ LET m == apiCall[1].method
         r == apiCall[1].resp
     IN apiRet' = <<IF m = "Get" THEN Get(r)
                    ELSE IF m = "GetRaw" THEN GetRaw(r)
                    ELSE IF m = "Post" THEN Post(r)
                    ELSE IF m = "Put" THEN Put(r)
                    ELSE Delete(r)>>
  /\ UNCHANGED <<clientVars, flowVars, cliVars, apiCall, toolVars>>

NextApi == ApiReturn

SpecApi == InitApi /\ [][NextApi]_vars

\* C18: for every response status outside 200-299 the method returns an
\* error carrying the status and the body; only a 2xx status is a success.
C18_Claim ==
  apiRet # <<>> =>
     IF apiCall[1].resp.status \in 200..299
       THEN apiRet[1].err = <<>>
       ELSE apiRet[1].err = <<apiCall[1].resp.status, apiCall[1].resp.body>>

\* ----------------------------------------------------- start of OAuthLogin
authURL == "https://bitbucket.org/site/oauth2/authorize"
\* client ids the command may be given
ClientIDs == {"id-a", "id-b"}
\* values hex.EncodeToString(stateBytes) may take
States == {"s1", "s2", "s3", "s4"}
\* ports the kernel may bind for 127.0.0.1:0
Ports == {49152, 50000, 51000, 60000, 65535}

\* fmt.Sprintf("http://localhost:%d/callback", port)
CallbackURL(port) == <<"http://localhost:", port, "/callback">>

\* the parameter names an authorize URL may carry, in the sorted order
\* url.Values.Encode writes them in
KeyOrder == <<"client_id", "redirect_uri", "response_type", "state">>

\* url.Values.Encode: the key=value pairs of params, sorted by key
Encode(params) ==
  LET keys == SelectSeq(KeyOrder, LAMBDA k : k \in DOMAIN params)
  IN [i \in 1..Len(keys) |-> <<keys[i], params[keys[i]]>>]

\* lines 166-171: authURL + "?" + params.Encode(); a value is the
\* sequence of its pieces
AuthorizeURL(clientID, state) ==
  [base |-> authURL,
   query |-> Encode([client_id |-> <<clientID>>, response_type |-> <<"code">>,
                     state |-> <<state>>])]

\* everything outside the start of OAuthLogin stays as it is
authzFrame ==
  UNCHANGED <<clientVars, flowVars, cliVars, apiVars, registry, repoCall>>

\* OAuthLogin(clientID, clientSecret) is entered
InitAuthorize ==
  /\ now \in StartTimes
  /\ endpoint = [rotate |-> FALSE, expiresIn |-> 3600]
  /\ ClientOff
  /\ FlowIdle
  /\ CliIdle
  /\ tokenFile = <<>>
  /\ credFile = <<>>
  /\ apiCall = <<>>
  /\ apiRet = <<>>
  /\ registry = <<>>
  /\ repoCall = <<>>
  /\ \E id \in ClientIDs :
       authz = [pc |-> "state", clientID |-> id, state |-> "", port |-> 0,
                callbackURL |-> <<>>, authorizeURL |-> <<>>,
                printed |-> <<>>, opened |-> <<>>, err |-> ""]

\* lines 151-155: rand.Read fills the state, or fails
GenerateState ==
  /\ authz.pc = "state"
  /\ \/ \E s \in States : authz' = [authz EXCEPT !.state = s, !.pc = "listen"]
     \/ authz' = [authz EXCEPT !.err = "generating state", !.pc = "returned"]
  /\ authzFrame

\* lines 158-162: net.Listen binds a free port, or fails
Listen ==
  /\ authz.pc = "listen"
  /\ \/ \E p \in Ports : authz' = [authz EXCEPT !.port = p, !.pc = "build"]
     \/ authz' = [authz EXCEPT !.err = "finding free port", !.pc = "returned"]
  /\ authzFrame

\* lines 163-171: the callback URL and the authorize URL
BuildAuthorizeURL ==
  /\ authz.pc = "build"
  /\ authz' = [authz EXCEPT
                 !.callbackURL = CallbackURL(authz.port),
                 !.authorizeURL = AuthorizeURL(authz.clientID, authz.state),
                 !.pc = "open"]
  /\ authzFrame

\* lines 211-216: both URLs are printed and the authorize URL is opened
OpenBrowser ==
  /\ authz.pc = "open"
  /\ authz' = [authz EXCEPT
                 !.printed = <<authz.authorizeURL, authz.callbackURL>>,
                 !.opened = authz.authorizeURL,
                 !.pc = "waiting"]
  /\ authzFrame

NextAuthorize ==
  \/ GenerateState
  \/ Listen
  \/ BuildAuthorizeURL
  \/ OpenBrowser

SpecAuthorize == InitAuthorize /\ [][NextAuthorize]_vars

\* the query of URL u carries parameter k with value v
HasParam(u, k, v) == \E i \in DOMAIN u.query : u.query[i] = <<k, v>>
\* the query of URL u carries value v under some parameter
HasValue(u, v) == \E i \in DOMAIN u.query : u.query[i][2] = v

\* C21: the authorization URL the flow prints and opens carries client_id,
\* response_type=code, the state generated for this run, and the callback
\* URL built from the port the listener was bound to.
C21_Claim ==
  (authz # <<>> /\ authz.pc = "waiting") =>
     /\ authz.printed[1] = authz.opened
     /\ HasParam(authz.opened, "client_id", <<authz.clientID>>)
     /\ HasParam(authz.opened, "response_type", <<"code">>)
     /\ HasParam(authz.opened, "state", <<authz.state>>)
     /\ HasValue(authz.opened, CallbackURL(authz.port))

\* ------------------------------------------------ MCP server: registerTools
\* the tools registerTools offers to addTool, in the order of the file
ToolNames ==
  <<"list_workspaces", "get_workspace",
    "list_repositories", "get_repository", "create_repository",
    "delete_repository",
    "list_branches", "create_branch", "delete_branch",
    "list_tags", "create_tag",
    "list_commits", "get_commit", "get_diff", "get_diffstat",
    "list_pull_requests", "get_pull_request", "create_pull_request",
    "update_pull_request", "merge_pull_request", "approve_pull_request",
    "unapprove_pull_request", "decline_pull_request", "get_pr_diff",
    "get_pr_diffstat", "list_pr_commits", "list_pr_comments",
    "create_pr_comment", "update_pr_comment", "delete_pr_comment",
    "resolve_pr_comment", "unresolve_pr_comment",
    "get_file_content", "list_directory", "get_file_history", "search_code",
    "write_file", "delete_file",
    "list_pipelines", "get_pipeline", "trigger_pipeline", "stop_pipeline",
    "list_pipeline_steps", "get_pipeline_step_log",
    "list_issues", "get_issue", "create_issue", "update_issue">>

Tools == {ToolNames[i] : i \in DOMAIN ToolNames}

\* getToolRequiredScope: the scopes of which one must be granted; {} for nil
getToolRequiredScope(toolName) ==
  IF toolName \in {"list_workspaces", "get_workspace"} THEN {}
  ELSE IF toolName \in {"list_repositories", "get_repository", "list_branches",
                        "list_tags", "list_commits", "get_commit", "get_diff",
                        "get_diffstat", "get_file_content", "list_directory",
                        "get_file_history", "search_code"}
    THEN {"repository"}
  ELSE IF toolName \in {"create_repository", "delete_repository",
                        "create_branch", "delete_branch", "create_tag",
                        "write_file", "delete_file"}
    THEN IF toolName = "delete_repository"
           THEN {"repository:delete"}
           ELSE {"repository:write", "repository:admin"}
  ELSE IF toolName \in {"list_pull_requests", "get_pull_request", "get_pr_diff",
                        "get_pr_diffstat", "list_pr_commits", "list_pr_comments"}
    THEN {"pullrequest"}
  ELSE IF toolName \in {"create_pull_request", "update_pull_request",
                        "merge_pull_request", "approve_pull_request",
                        "unapprove_pull_request", "decline_pull_request",
                        "create_pr_comment", "update_pr_comment",
                        "delete_pr_comment", "resolve_pr_comment",
                        "unresolve_pr_comment"}
    THEN {"pullrequest:write"}
  ELSE IF toolName \in {"list_pipelines", "get_pipeline", "list_pipeline_steps",
                        "get_pipeline_step_log"}
    THEN {"pipeline"}
  ELSE IF toolName \in {"trigger_pipeline", "stop_pipeline"}
    THEN {"pipeline:write"}
  ELSE IF toolName \in {"list_issues", "get_issue"} THEN {"issue"}
  ELSE IF toolName \in {"create_issue", "update_issue"} THEN {"issue:write"}
  ELSE {}

\* the switch of hasRequiredScope (lines 84-126): the granted scopes, other
\* than req itself, that stand for req
ScopeAliases(req) ==
  IF req = "repository"
    THEN {"repository:write", "repository:admin", "read:repository:bitbucket",
          "write:repository:bitbucket", "admin:repository:bitbucket"}
  ELSE IF req = "repository:write"
    THEN {"repository:admin", "write:repository:bitbucket",
          "admin:repository:bitbucket"}
  ELSE IF req = "repository:admin" THEN {"admin:repository:bitbucket"}
  ELSE IF req = "pullrequest"
    THEN {"pullrequest:write", "read:pullrequest:bitbucket",
          "write:pullrequest:bitbucket"}
  ELSE IF req = "pullrequest:write" THEN {"write:pullrequest:bitbucket"}
  ELSE IF req = "pipeline"
    THEN {"pipeline:write", "read:pipeline:bitbucket",
          "write:pipeline:bitbucket"}
  ELSE IF req = "pipeline:write" THEN {"write:pipeline:bitbucket"}
  ELSE IF req = "issue"
    THEN {"issue:write", "read:issue:bitbucket", "write:issue:bitbucket"}
  ELSE IF req = "issue:write" THEN {"write:issue:bitbucket"}
  ELSE {}

\* hasRequiredScope: nothing required, or nothing known about the token,
\* or some granted scope is or stands for some required one
hasRequiredScope(tokenScopes, required) ==
  IF required = {} THEN TRUE
  ELSE IF tokenScopes = {} THEN TRUE
  ELSE \E req \in required, ts \in tokenScopes :
          ts = req \/ ts \in ScopeAliases(req)

\* ---- BITBUCKET_DISABLED_TOOLS, a string: the sequence of its pieces,
\* each a run of name characters, a "," or a white space character
Comma == ","
WhiteSpace == {" ", "\t"}

RECURSIVE Split(_)
\* strings.Split(s, ","): the fields between the commas
Split(s) ==
  IF \A i \in DOMAIN s : s[i] # Comma THEN <<s>>
  ELSE LET i == CHOOSE j \in DOMAIN s :
                  s[j] = Comma /\ \A k \in 1..(j - 1) : s[k] # Comma
       IN <<SubSeq(s, 1, i - 1)>> \o Split(SubSeq(s, i + 1, Len(s)))

RECURSIVE TrimLeft(_)
TrimLeft(s) ==
  IF s # <<>> /\ Head(s) \in WhiteSpace THEN TrimLeft(Tail(s)) ELSE s

RECURSIVE TrimRight(_)
TrimRight(s) ==
  IF s # <<>> /\ s[Len(s)] \in WhiteSpace
    THEN TrimRight(SubSeq(s, 1, Len(s) - 1))
    ELSE s

\* strings.TrimSpace
TrimSpace(s) == TrimRight(TrimLeft(s))

\* the keys of the map without trimming the fields
DisabledToolsNoTrim(disabledToolsEnv) ==
  IF disabledToolsEnv = <<>> THEN {}
  ELSE LET fields == Split(disabledToolsEnv)
       IN {fields[i] : i \in DOMAIN fields}

\* lines 144-150: the keys of the map `disabled`
DisabledTools(disabledToolsEnv) ==
  IF disabledToolsEnv = <<>> THEN {}
  ELSE LET fields == Split(disabledToolsEnv)
       IN {TrimSpace(fields[i]) : i \in DOMAIN fields}

\* addTool: whether the tool reaches mcp.AddTool
addTool(disabled, tokenScopes, toolName) ==
  IF <<toolName>> \in disabled THEN FALSE
  ELSE IF ~hasRequiredScope(tokenScopes, getToolRequiredScope(toolName))
    THEN FALSE
  ELSE TRUE

\* values of BITBUCKET_DISABLED_TOOLS
DisabledEnvValues ==
  {<<>>,
   <<"delete_repository">>,
   <<"delete_repository", ",", "delete_branch", ",", "delete_file">>,
   <<" ", "trigger_pipeline", " ", ",", "\t", "stop_pipeline">>,
   <<"delete_repository", ",", ",", " ", "write_file", " ">>,
   <<"create_issue", " ", "update_issue">>,
   <<"no_such_tool", ",">>}

\* scopes a token may carry
ScopeNames ==
  {"account", "repository", "repository:write", "repository:admin",
   "repository:delete", "pullrequest", "pullrequest:write", "pipeline",
   "pipeline:write", "issue", "issue:write",
   "read:repository:bitbucket", "write:repository:bitbucket",
   "admin:repository:bitbucket", "read:pullrequest:bitbucket",
   "write:pullrequest:bitbucket", "read:pipeline:bitbucket",
   "write:pipeline:bitbucket", "read:issue:bitbucket",
   "write:issue:bitbucket"}

\* what c.Scopes() may hand to registerTools: an error and no scopes, or a
\* list of none, one or two scopes, or all of them
ScopesResults ==
  {[err |-> TRUE, scopes |-> {}]}
  \cup {[err |-> FALSE, scopes |-> {a, b}] : a, b \in ScopeNames}
  \cup {[err |-> FALSE, scopes |-> S] : S \in {{}, ScopeNames}}

registryFrame ==
  UNCHANGED <<clientVars, flowVars, cliVars, apiVars, authz, repoCall>>

\* the MCP server starts with some value of BITBUCKET_DISABLED_TOOLS
InitRegister ==
  /\ now \in StartTimes
  /\ endpoint = [rotate |-> FALSE, expiresIn |-> 3600]
  /\ ClientOff
  /\ FlowIdle
  /\ CliIdle
  /\ tokenFile = <<>>
  /\ credFile = <<>>
  /\ apiCall = <<>>
  /\ apiRet = <<>>
  /\ authz = <<>>
  /\ repoCall = <<>>
  /\ \E e \in DisabledEnvValues :
       registry = [pc |-> "parse", env |-> e, disabled |-> {},
                   scopesErr |-> FALSE, tokenScopes |-> {},
                   registered |-> {}]

\* lines 144-150
ParseDisabledTools ==
  /\ registry.pc = "parse"
  /\ registry' = [registry EXCEPT !.disabled = DisabledTools(registry.env),
                                  !.pc = "scopes"]
  /\ registryFrame

\* lines 152-155: a failure of c.Scopes() is only reported
FetchScopes ==
  /\ registry.pc = "scopes"
  /\ \E r \in ScopesResults :
       registry' = [registry EXCEPT !.scopesErr = r.err,
                                    !.tokenScopes = r.scopes,
                                    !.pc = "add"]
  /\ registryFrame

\* lines 157 to the end: one addTool per tool
AddTools ==
  /\ registry.pc = "add"
  /\ registry' = [registry EXCEPT
                    !.registered =
                       {t \in Tools :
                          addTool(registry.disabled, registry.tokenScopes, t)},
                    !.pc = "done"]
  /\ registryFrame

NextRegister ==
  \/ ParseDisabledTools
  \/ FetchScopes
  \/ AddTools

SpecRegister == InitRegister /\ [][NextRegister]_vars

\* registerTools has returned
Registered == registry # <<>> /\ registry.pc = "done"

\* the granted scopes include a pipeline write permission
PipelineWriteGranted(scopes) ==
  scopes \cap {"pipeline:write", "write:pipeline:bitbucket"} # {}

\* one of the scopes the tool requires, or a scope standing for it, is granted
RequiredScopeGranted(scopes, t) ==
  \E req \in getToolRequiredScope(t), ts \in scopes :
     ts = req \/ ts \in ScopeAliases(req)

\* C22: a tool is registered only if the granted scopes satisfy its required
\* scope: without a pipeline write permission trigger_pipeline and
\* stop_pipeline are not registered, and no other tool with a required
\* scope is registered when that scope is not granted.
C22_Claim ==
  Registered =>
     /\ ~PipelineWriteGranted(registry.tokenScopes) =>
           registry.registered \cap {"trigger_pipeline", "stop_pipeline"} = {}
     /\ \A t \in registry.registered :
           getToolRequiredScope(t) # {} =>
              RequiredScopeGranted(registry.tokenScopes, t)

\* the name stands in the variable as one comma-separated element, white
\* space around it ignored
NamedIn(t, e) ==
  \E i \in DOMAIN e :
     /\ e[i] = t
     /\ \E lo \in 0..(i - 1) :
          /\ lo = 0 \/ e[lo] = Comma
          /\ \A k \in (lo + 1)..(i - 1) : e[k] \in WhiteSpace
     /\ \E hi \in (i + 1)..(Len(e) + 1) :
          /\ hi = Len(e) + 1 \/ e[hi] = Comma
          /\ \A k \in (i + 1)..(hi - 1) : e[k] \in WhiteSpace

\* C23: a tool named in BITBUCKET_DISABLED_TOOLS is never registered,
\* whatever the scopes; a tool not named in it is registered exactly when
\* it would be with the variable unset.
C23_DisabledNeverRegistered ==
  Registered =>
     \A t \in Tools :
        IF NamedIn(t, registry.env)
          THEN t \notin registry.registered
          ELSE t \in registry.registered
                  <=> addTool({}, registry.tokenScopes, t)

\* a name given with white space around it is kept out although the token
\* has every scope, and the tools not named are registered
C23_Witness ==
  /\ Registered
  /\ registry.env = <<" ", "trigger_pipeline", " ", ",", "\t", "stop_pipeline">>
  /\ registry.tokenScopes = ScopeNames
  /\ registry.registered = Tools \ {"trigger_pipeline", "stop_pipeline"}

\* ------------------------------------------------- create_repository tool
\* an optional argument left out of the call; <<v>> when given as v
LeftOut == <<>>

\* the arguments object of a create_repository call; "" for a string
\* argument that is left out or empty
CreateRepositoryCalls ==
  [workspace : {"", "ws"}, repo_slug : {"", "repo"},
   description : {"", "about"}, language : {"", "go"},
   is_private : {LeftOut, <<TRUE>>, <<FALSE>>}, project_key : {"", "PK"}]

\* decoding the arguments into CreateRepositoryArgs (lines 76-83): a bool
\* field that is left out decodes to false
CreateRepositoryArgs(a) ==
  [Workspace |-> a.workspace, RepoSlug |-> a.repo_slug,
   Description |-> a.description, Language |-> a.language,
   IsPrivate |-> IF a.is_private = LeftOut THEN FALSE ELSE a.is_private[1],
   ProjectKey |-> a.project_key]

\* the entry of a map that is set under a condition
Entry(cond, k, v) == IF cond THEN k :> v ELSE <<>>

\* CreateRepositoryHandler, lines 86-111: the error for a missing workspace
\* or slug, or the path and the body handed to c.Post
CreateRepositoryHandler(args) ==
  IF args.Workspace = "" \/ args.RepoSlug = ""
    THEN [err |-> "workspace and repo_slug are required", path |-> <<>>,
          body |-> <<>>]
    ELSE [err |-> "",
          path |-> <<"/repositories/", args.Workspace, "/", args.RepoSlug>>,
          body |-> ("scm" :> "git")
                   @@ Entry(args.Description # "", "description", args.Description)
                   @@ Entry(args.Language # "", "language", args.Language)
                   @@ ("is_private" :> TRUE)
                   @@ Entry(args.ProjectKey # "", "project",
                            [key |-> args.ProjectKey])]

repoFrame ==
  UNCHANGED <<clientVars, flowVars, cliVars, apiVars, authz, registry>>

\* the agent calls create_repository
InitCreateRepo ==
  /\ now \in StartTimes
  /\ endpoint = [rotate |-> FALSE, expiresIn |-> 3600]
  /\ ClientOff
  /\ FlowIdle
  /\ CliIdle
  /\ tokenFile = <<>>
  /\ credFile = <<>>
  /\ apiCall = <<>>
  /\ apiRet = <<>>
  /\ authz = <<>>
  /\ registry = <<>>
  /\ \E a \in CreateRepositoryCalls :
       repoCall = [pc |-> "decode", call |-> a, args |-> <<>>, out |-> <<>>]

\* the MCP server decodes the arguments for the handler
DecodeArgs ==
  /\ repoCall.pc = "decode"
  /\ repoCall' = [repoCall EXCEPT !.args = CreateRepositoryArgs(repoCall.call),
                                  !.pc = "handle"]
  /\ repoFrame

\* the handler runs up to c.Post
HandleCreateRepository ==
  /\ repoCall.pc = "handle"
  /\ repoCall' = [repoCall EXCEPT !.out = CreateRepositoryHandler(repoCall.args),
                                  !.pc = "done"]
  /\ repoFrame

NextCreateRepo ==
  \/ DecodeArgs
  \/ HandleCreateRepository

SpecCreateRepo == InitCreateRepo /\ [][NextCreateRepo]_vars

\* C24: the body create_repository posts carries is_private equal to the
\* caller's argument when one is supplied, and true when it is omitted.
C24_Claim ==
  (repoCall # <<>> /\ repoCall.pc = "done" /\ repoCall.out.err = "") =>
     repoCall.out.body["is_private"] =
        (IF repoCall.call.is_private = LeftOut
           THEN TRUE
           ELSE repoCall.call.is_private[1])

\* the i-th request the call of g sent, as the API received it
RequestSent(g, i) == NewRequest(g, reqs[g][i].tok, reqs[g][i].read)

\* C25: the request resent after a 401 has the method, URL, Content-Type
\* and body bytes of the first attempt; for Post and Put the full JSON body
\* is sent again.
C25_Claim ==
  \A g \in Goroutines :
     Len(reqs[g]) = 2 =>
        /\ RequestSent(g, 2).method = RequestSent(g, 1).method
        /\ RequestSent(g, 2).url = RequestSent(g, 1).url
        /\ RequestSent(g, 2).contentType = RequestSent(g, 1).contentType
        /\ RequestSent(g, 2).body = RequestSent(g, 1).body

\* the call of h has not begun: it is at the Lock of its first
\* ensureValidToken
NotStarted(h) ==
  pc[h] = "ev_lock" /\ phase[h] = 1 /\ reqs[h] = <<>> /\ nref[h] = 0

\* every call but that of h has returned the error of a failed refresh, so
\* the call of h is the next one after a refresh failure
NextAfterFailure(h) ==
  /\ NotStarted(h)
  /\ startCred.td.RefreshToken # NoToken
  /\ \A g \in Goroutines \ {h} : RefreshErrored(g)

\* C26: a failed refresh never wedges the client: the call that follows a
\* refresh failure (expiry-triggered or forced by a 401) attempts a refresh
\* again when it enters ensureValidToken.
C26_Claim ==
  [][\A h \in Goroutines :
       (NextAfterFailure(h) /\ pc'[h] # pc[h]) => pc'[h] = "rf_request"]_vars

\* C27: whenever no goroutine holds c.mu, the bearer token the client puts
\* on requests equals the access token of the credential it holds, after
\* any sequence of successful and failed refreshes.
C27_Claim ==
  mu = 0 => token = tokenData.AccessToken

\* every call sent its first request with the access token the server
\* started with, on a credential that was not expired, and was answered 401;
\* the tokens the endpoint grants outlive the five-minute buffer
AllUnauthorizedWithStartToken ==
  /\ ~IsExpired(startCred.td, now)
  /\ endpoint.expiresIn > Buffer
  /\ startCred.td.RefreshToken # NoToken
  /\ \A g \in Goroutines :
       /\ Len(reqs[g]) >= 1
       /\ reqs[g][1].tok = startCred.tok
       /\ reqs[g][1].status = StatusUnauthorized

\* no refresh attempt has failed
NoRefreshErrored == \A g \in Goroutines : ~RefreshErrored(g)

\* C28: when all the concurrent requests were sent with the same access
\* token and all were answered 401, the token endpoint receives one refresh
\* request for them all: never more than one, and one when every call has
\* returned.
C28_Claim ==
  (AllUnauthorizedWithStartToken /\ NoRefreshErrored) =>
     /\ TotalRefreshes <= 1
     /\ (\A g \in Goroutines : pc[g] = "done") => TotalRefreshes = 1

\* the ways the flow fails before it has a token: state mismatch, callback
\* without code, timeout, exchange transport error, non-200 and unparsable
\* token response, and the provider's error
FailedFlow ==
  /\ flowPc = "returned"
  /\ \/ flowResult.kind \in {"state_mismatch", "no_code", "timeout"}
     \/ flowResult.kind \in ExchangeFailures
     \/ flowResult.kind = "oauth"

\* C29: an OAuth flow that ends in one of these failures writes nothing:
\* token.json and credentials.json hold what they held before the flow.
C29_FailedFlowWritesNothing ==
  FailedFlow =>
     /\ tokenFile = <<StoredBefore(now)>>
     /\ credFile = <<StoredBefore(now)>>

\* the flow got a valid code, posted it, and the token endpoint refused it
C29_Witness ==
  /\ FailedFlow
  /\ flowResult = FlowError("exchange_failed")
  /\ exchanged # <<>>
  /\ tokenFile = <<StoredBefore(now)>>

\* the credential RefreshAccessToken leaves for the response r it decoded,
\* starting from credential t at time n
Refreshed(t, r, n) ==
  [AccessToken |-> r.AccessToken,
   RefreshToken |-> IF r.RefreshToken = NoToken THEN t.RefreshToken
                                                ELSE r.RefreshToken,
   ExpiresIn |-> r.ExpiresIn,
   Scopes |-> r.Scopes,
   ObtainedAt |-> n]

\* C30: a successful refresh replaces the access token, expiresIn, scopes
\* and obtained time by the response's values and keeps the previous
\* refresh token when the response has none; a credential that has a
\* refresh token still has one after any sequence of refreshes.
C30_RefreshKeepsRefreshToken ==
  /\ [](startCred.td.RefreshToken # NoToken => tokenData.RefreshToken # NoToken)
  /\ [][\A g \in Goroutines :
          (pc[g] = "rf_set_rest" /\ pc'[g] # pc[g]) =>
             tokenData' = Refreshed(tokenData, rfResult[g], now)]_vars

\* two refreshes answered without a refresh token: the second access token
\* is held together with the refresh token the server started with
C30_Witness ==
  /\ ~endpoint.rotate
  /\ ~MidRefresh
  /\ \A g \in Goroutines : ~RefreshErrored(g)
  /\ issued = InitialToken + 2
  /\ tokenData.AccessToken = issued
  /\ tokenData.RefreshToken = InitialToken
  /\ tokenData.Scopes = GrantedScopes

Init == InitClient /\ FlowIdle
Next == NextClient
Spec == Init /\ [][Next]_vars

====
